---- MODULE Spec2Model ----
(***************************************************************************)
(* gif-capture (src/main.rs): a pointer drag selects a screen rectangle,   *)
(* frames are sampled from the capture device for a fixed time, converted  *)
(* to RGBA images and written as one animated GIF.                         *)
(*                                                                         *)
(* Spec      the whole program, main() and everything it calls.            *)
(* RectSpec  get_capture_rect as a pure function over the whole (scaled)   *)
(*           signed-integer range.                                         *)
(* ConvSpec  convert_frame_to_rgb followed by convert_rgb_to_image as a    *)
(*           pure function.                                                *)
(***************************************************************************)
EXTENDS Integers, Sequences, FiniteSets, TLC

VARIABLES
    pc,                \* position of main: "init", "select", "selected",
                       \* "capture", "convert", "encode", "done"; "rect_call"/"rect_ret"
                       \* and "conv_call"/"conv_ret" in the pure-function specs
    exit,              \* "running", "ok" (status 0), "err" (main returned Err),
                       \* "panic" (an unwrap failed)
    err_msg,           \* the Err string of main, << >> when there is none
    screen_dimensions, \* <<w, h>> of the display
    selected_corners,  \* <<Option<Point>, Option<Point>>>, None is << >>
    canvas,            \* the overlay: what is drawn and what is presented
    capture_area,      \* Option<Rect>: the CaptureContext's capture_area
    duration,          \* capture_frames' argument, seconds
    frame_rate,        \* capture_frames' and create_gif's argument
    capturer,          \* TRUE once Capturer::new(0) has opened the device
    elapsed,           \* ms since capture_start_time
    frames,            \* Vec<Frame>
    gif_images,        \* Vec<Image>
    outfile,           \* output.gif: "absent", "empty", "partial", "complete"
    device_log,        \* history: the result of every capture_frame call
    first_down,        \* history: point of the pointer-down that left Idle
    downs_differ,      \* history: a later pointer-down named another point
    last_up,           \* history: point of the pointer-up that ended Dragging
    last_event,        \* history: the event the selection loop handled last
    sel_exit           \* history: what ended the selection loop

vars == <<pc, exit, err_msg, screen_dimensions, selected_corners, canvas,
          capture_area, duration, frame_rate, capturer, elapsed, frames,
          gif_images, outfile, device_log, first_down, downs_differ, last_up,
          last_event, sel_exit>>

----------------------------------------------------------------------------
(* Bounds *)

\* Width of the signed integer standing for i32.
IntBits == 3
\* Pointer events of the program carry coordinates 0..MaxCoord.
MaxCoord == 1
\* The sampling loop is cut off after this many captured frames.
MaxFrames == 4
\* capture_frames is called with durations 0..MaxDuration seconds.
MaxDuration == 1
\* ConvSpec converts frames of up to MaxDim x MaxDim pixels.
MaxDim == 2

\* The arguments main passes to capture_frames.
capture_duration == 3
main_frame_rate == 10

IntMin == 0 - 2 ^ (IntBits - 1)
IntMax == 2 ^ (IntBits - 1) - 1
Ints == IntMin .. IntMax

Coords == 0 .. MaxCoord
Points == [x : Coords, y : Coords]
WidePoints == [x : Ints, y : Ints]

\* Frame rates: slow ones, and one above 1000 whose delay rounds to 0 ms.
Rates == {1, 2, 4, 1001}
\* (duration, frame_rate) of the capture_frames call.
Calls == ((0 .. MaxDuration) \X Rates) \cup {<<capture_duration, main_frame_rate>>}
\* How long one capture_frame call may take, ms.
CaptureMs == {0, 250}
ScreenDims == {<<1, 1>>, <<2, 1>>}

\* Bgr8 pixels with pairwise different channels.
PixelSeq == << [b |-> 1, g |-> 2, r |-> 3],
              [b |-> 30, g |-> 20, r |-> 10],
              [b |-> 0, g |-> 255, r |-> 7] >>
Pixels == {PixelSeq[i] : i \in 1 .. Len(PixelSeq)}
\* The frames the capture device may deliver for a w x h screen.
DeviceFrame(seed, w, h) == [i \in 1 .. w * h |-> PixelSeq[((seed + i) % Len(PixelSeq)) + 1]]
DeviceFrames(w, h) == {DeviceFrame(seed, w, h) : seed \in 0 .. 1}

\* An event of the pump: its kind and, for pointer events, its x and y.
EventOf(kind, p) == [kind |-> kind, at |-> p]
NoEvent == EventOf("none", [x |-> 0, y |-> 0])

None == << >>
Some(v) == <<v>>
IsSome(o) == o # << >>
Unwrap(o) == o[1]

----------------------------------------------------------------------------
(* get_capture_rect *)

Min(a, b) == IF a <= b THEN a ELSE b
Max(a, b) == IF a >= b THEN a ELSE b

\* i32 arithmetic: the result of a subtraction, wrapped to the integer width.
WrapInt(v) == ((v - IntMin) % (2 ^ IntBits)) + IntMin

\* (max - min).try_into().unwrap(): the subtraction overflows when the true
\* difference exceeds IntMax; a debug build panics at the subtraction, a
\* release build wraps to a negative number whose conversion to u32 fails.
\* Either way the call panics.
SizePanics(lo, hi) == WrapInt(hi - lo) < 0

RectPanics(corner1, corner2) ==
    \/ SizePanics(Min(corner1.x, corner2.x), Max(corner1.x, corner2.x))
    \/ SizePanics(Min(corner1.y, corner2.y), Max(corner1.y, corner2.y))

RectNew(x, y, width, height) == [x |-> x, y |-> y, w |-> width, h |-> height]

\* Faulty variant: a rectangle is never given a side shorter than 1.
get_capture_rect_min_size(corner1, corner2) ==
    LET min_x == Min(corner1.x, corner2.x)
        min_y == Min(corner1.y, corner2.y)
        max_x == Max(corner1.x, corner2.x)
        max_y == Max(corner1.y, corner2.y)
        width == WrapInt(max_x - min_x)
        height == WrapInt(max_y - min_y)
    IN  RectNew(min_x, min_y, Max(width, 1), Max(height, 1))

get_capture_rect(corner1, corner2) ==
    LET min_x == Min(corner1.x, corner2.x)
        min_y == Min(corner1.y, corner2.y)
        max_x == Max(corner1.x, corner2.x)
        max_y == Max(corner1.y, corner2.y)
        width == WrapInt(max_x - min_x)
        height == WrapInt(max_y - min_y)
    IN  RectNew(min_x, min_y, width, height)

----------------------------------------------------------------------------
(* The overlay canvas *)

\* drawn: the rectangles filled since the last clear; shown: what the last
\* present() put on the screen.
CanvasCleared == [drawn |-> {}, shown |-> {}]
\* Faulty variant: the previous preview is left on the canvas.
CanvasClearNothing(c) == c
CanvasClear(c) == [c EXCEPT !.drawn = {}]
CanvasFillRect(c, r) == [c EXCEPT !.drawn = @ \cup {r}]
CanvasPresent(c) == [c EXCEPT !.shown = c.drawn]

----------------------------------------------------------------------------
(* main, get_capture_context, get_capture_area *)

Init ==
    /\ pc = "init"
    /\ exit = "running"
    /\ err_msg = << >>
    /\ screen_dimensions \in ScreenDims
    /\ selected_corners = <<None, None>>
    /\ canvas = CanvasCleared
    /\ capture_area = None
    /\ duration = 0
    /\ frame_rate = 0
    /\ capturer = FALSE
    /\ elapsed = 0
    /\ frames = << >>
    /\ gif_images = << >>
    /\ outfile = "absent"
    /\ device_log = << >>
    /\ first_down = None
    /\ downs_differ = FALSE
    /\ last_up = None
    /\ last_event = NoEvent
    /\ sel_exit = "none"

Selecting == pc = "select" /\ exit = "running"
\* The selector has an anchor: Dragging; it has none: Idle.
Dragging == IsSome(selected_corners[1])

SelectionFailed == <<"Failed to select area for capture.">>
SdlError == <<"sdl error">>
\* The panic of a failed unwrap() or index, named by the call that failed.
Panicked(what) == <<"panicked", what>>

\* The process ends: main returned Err(msg) (how = "err") or an unwrap
\* panicked (how = "panic"). Every local is dropped.
ProcessEnds(how, msg) ==
    /\ exit' = how
    /\ err_msg' = msg
    /\ pc' = "done"
    /\ selected_corners' = <<None, None>>
    /\ canvas' = CanvasCleared
    /\ frames' = << >>
    /\ gif_images' = << >>

\* Faulty variant: the anchor alone is enough for a rectangle.
selection_result_anchor_only(corners) ==
    IF IsSome(corners[1])
    THEN LET start == Unwrap(corners[1])
             end == IF IsSome(corners[2]) THEN Unwrap(corners[2]) ELSE start
         IN  [ok |-> TRUE, panics |-> RectPanics(start, end),
              rect |-> get_capture_rect(start, end)]
    ELSE [ok |-> FALSE, panics |-> FALSE, rect |-> RectNew(0, 0, 0, 0)]

\* The match on selected_corners that ends get_capture_area.
selection_result(corners) ==
    IF IsSome(corners[1]) /\ IsSome(corners[2])
    THEN [ok |-> TRUE, panics |-> RectPanics(Unwrap(corners[1]), Unwrap(corners[2])),
          rect |-> get_capture_rect(Unwrap(corners[1]), Unwrap(corners[2]))]
    ELSE [ok |-> FALSE, panics |-> FALSE, rect |-> RectNew(0, 0, 0, 0)]

\* The loop was left with `corners`: get_capture_area returns, and with ? in
\* get_capture_context and main an Err ends the process; an Ok builds the
\* CaptureContext.
SelectorReturns(corners) ==
    LET r == selection_result(corners) IN
    IF r.ok /\ r.panics
    THEN ProcessEnds("panic", Panicked("try_into")) /\ UNCHANGED capture_area
    ELSE IF r.ok
    THEN /\ capture_area' = Some(r.rect)
         /\ pc' = "selected"
         /\ selected_corners' = <<None, None>>
         /\ canvas' = CanvasCleared
         /\ UNCHANGED <<exit, err_msg, frames, gif_images>>
    ELSE ProcessEnds("err", SelectionFailed) /\ UNCHANGED capture_area

\* sdl2::init, video(), current_display_mode, the window, the canvas, the
\* cursor and the event pump all succeed.
SetupOk ==
    /\ pc = "init"
    /\ pc' = "select"
    /\ canvas' = CanvasPresent(CanvasClear(canvas))
    /\ UNCHANGED <<last_event, exit, err_msg, screen_dimensions, selected_corners,
                   capture_area, duration, frame_rate, capturer, elapsed,
                   frames, gif_images, outfile, device_log, first_down,
                   downs_differ, last_up, sel_exit>>

\* One of them fails: ? returns the Err up to main.
SetupFail ==
    /\ pc = "init"
    /\ ProcessEnds("err", SdlError)
    /\ sel_exit' = "setup_error"
    /\ UNCHANGED <<last_event, screen_dimensions, capture_area, duration, frame_rate,
                   capturer, elapsed, outfile, device_log, first_down,
                   downs_differ, last_up>>

\* Event::KeyDown { keycode: Some(Keycode::Escape) } or Event::Quit.
Cancel(kind) ==
    /\ Selecting
    /\ SelectorReturns(selected_corners)
    /\ sel_exit' = kind
    /\ UNCHANGED <<screen_dimensions, duration, frame_rate, capturer, elapsed,
                   outfile, device_log, first_down, downs_differ, last_up>>
    /\ last_event' = EventOf(kind, NoEvent.at)

MouseButtonDown(p) ==
    /\ Selecting
    /\ selected_corners' = <<Some(p), selected_corners[2]>>
    /\ canvas' = CanvasPresent(canvas)
    /\ first_down' = IF IsSome(selected_corners[1]) THEN first_down ELSE Some(p)
    /\ downs_differ' = (downs_differ \/ (IsSome(first_down) /\ first_down # Some(p)))
    /\ UNCHANGED <<pc, exit, err_msg, screen_dimensions, capture_area, duration,
                   frame_rate, capturer, elapsed, frames, gif_images, outfile,
                   device_log, last_up, sel_exit>>
    /\ last_event' = EventOf("down", p)

\* The preview drawn by a pointer-move at p, fill_rect succeeding.
MouseMotion(p) ==
    /\ Selecting
    /\ IF Dragging
       THEN LET point == Unwrap(selected_corners[1])
                draw_rect == get_capture_rect(p, point)
            IN  IF RectPanics(p, point)
                THEN /\ ProcessEnds("panic", Panicked("try_into"))
                     /\ sel_exit' = "panic"
                ELSE /\ canvas' = CanvasPresent(CanvasFillRect(CanvasClear(canvas), draw_rect))
                     /\ UNCHANGED <<pc, exit, err_msg, selected_corners, frames,
                                    gif_images, sel_exit>>
       ELSE UNCHANGED <<pc, exit, err_msg, selected_corners, canvas, frames,
                        gif_images, sel_exit>>
    /\ UNCHANGED <<screen_dimensions, capture_area, duration, frame_rate,
                   capturer, elapsed, outfile, device_log, first_down,
                   downs_differ, last_up>>
    /\ last_event' = EventOf("motion", p)

\* canvas.fill_rect(draw_rect)? fails: get_capture_area returns its Err.
MouseMotionDrawError(p) ==
    /\ Selecting
    /\ Dragging
    /\ ~RectPanics(p, Unwrap(selected_corners[1]))
    /\ ProcessEnds("err", SdlError)
    /\ sel_exit' = "draw_error"
    /\ UNCHANGED <<screen_dimensions, capture_area, duration, frame_rate,
                   capturer, elapsed, outfile, device_log, first_down,
                   downs_differ, last_up>>
    /\ last_event' = EventOf("motion", p)

\* Faulty variant: a pointer-up ends the selection in every state.
MouseButtonUpAlways(p) ==
    /\ Selecting
    /\ SelectorReturns(<<selected_corners[1], Some(p)>>)
    /\ last_up' = Some(p)
    /\ sel_exit' = "up"
    /\ UNCHANGED <<screen_dimensions, duration, frame_rate, capturer, elapsed,
                   outfile, device_log, first_down, downs_differ>>
    /\ last_event' = EventOf("up", p)

MouseButtonUp(p) ==
    /\ Selecting
    /\ IF Dragging
       THEN /\ SelectorReturns(<<selected_corners[1], Some(p)>>)
            /\ last_up' = Some(p)
            /\ sel_exit' = "up"
       ELSE UNCHANGED <<pc, exit, err_msg, selected_corners, canvas,
                        capture_area, frames, gif_images, last_up, sel_exit>>
    /\ UNCHANGED <<screen_dimensions, duration, frame_rate, capturer, elapsed,
                   outfile, device_log, first_down, downs_differ>>
    /\ last_event' = EventOf("up", p)

----------------------------------------------------------------------------
(* capture_frames *)

\* main prints the context, sleeps a second and calls capture_frames, which
\* opens device 0 and reads the clock.
StartCapture(call) ==
    /\ pc = "selected" /\ exit = "running"
    /\ pc' = "capture"
    /\ capturer' = TRUE
    /\ duration' = call[1]
    /\ frame_rate' = call[2]
    /\ elapsed' = 0
    /\ frames' = << >>
    /\ first_down' = None
    /\ downs_differ' = FALSE
    /\ last_up' = None
    /\ UNCHANGED <<exit, err_msg, screen_dimensions, selected_corners, canvas,
                   capture_area, gif_images, outfile, device_log, sel_exit>>
    /\ last_event' = NoEvent

\* Capturer::new(0).unwrap() panics.
CapturerOpenFail ==
    /\ pc = "selected" /\ exit = "running"
    /\ ProcessEnds("panic", Panicked("Capturer::new"))
    /\ UNCHANGED <<last_event, screen_dimensions, capture_area, duration, frame_rate,
                   capturer, elapsed, outfile, device_log, first_down,
                   downs_differ, last_up, sel_exit>>

\* Faulty variant: the delay is computed in seconds and slept as ms.
sleep_time_in_seconds == 1 \div frame_rate

sleep_time == 1000 \div frame_rate

\* Duration::as_secs: whole seconds.
as_secs(ms) == ms \div 1000

\* Faulty variant: the loop stops as soon as D whole seconds have passed.
TimeIsUpInclusive == as_secs(elapsed) >= duration

\* capture_duration.as_secs() > (duration as u64)
TimeIsUp == as_secs(elapsed) > duration

\* Faulty variant: the failing attempt is counted from 1.
CaptureFailedOneBased(index) == <<"Failed to capture frame", index + 1>>

CaptureFailed(index) == <<"Failed to capture frame", index>>

\* Faulty variant: the new frame goes to the front.
PushFrameFront(fs, frame_data) == <<frame_data>> \o fs

\* frames.push(frame_data)
PushFrame(fs, frame_data) == Append(fs, frame_data)

\* Faulty variant: create_gif is called while frames wait for conversion.
NextPhaseEager(remaining) == "encode"

\* main after capture_frames: collect() takes every frame through the two
\* conversions; create_gif is called once none remains.
NextPhase(remaining) == IF remaining = << >> THEN "encode" ELSE "convert"

\* The elapsed-time check breaks the loop: capture_frames returns Ok(frames).
LoopExit ==
    /\ pc = "capture" /\ exit = "running"
    /\ TimeIsUp
    /\ pc' = NextPhase(frames)
    /\ UNCHANGED <<last_event,
                   exit, err_msg, screen_dimensions, selected_corners, canvas,
                   capture_area, duration, frame_rate, capturer, elapsed,
                   frames, gif_images, outfile, device_log, first_down,
                   downs_differ, last_up, sel_exit>>

\* One iteration: the check passes, capture_frame returns a frame after
\* `took` ms, the frame is pushed and the thread sleeps sleep_time ms.
CaptureOk(frame_data, took) ==
    /\ pc = "capture" /\ exit = "running"
    /\ ~TimeIsUp
    /\ Len(frames) < MaxFrames
    /\ frames' = PushFrame(frames, frame_data)
    /\ device_log' = Append(device_log, <<"Ok", frame_data>>)
    /\ elapsed' = elapsed + took + sleep_time
    /\ UNCHANGED <<last_event, pc, exit, err_msg, screen_dimensions, selected_corners,
                   canvas, capture_area, duration, frame_rate, capturer,
                   gif_images, outfile, first_down, downs_differ, last_up,
                   sel_exit>>

\* One iteration: the check passes, capture_frame fails; capture_frames
\* returns Err and main returns it.
CaptureErr ==
    /\ pc = "capture" /\ exit = "running"
    /\ ~TimeIsUp
    /\ device_log' = Append(device_log, <<"Err">>)
    /\ ProcessEnds("err", CaptureFailed(Len(frames)))
    /\ UNCHANGED <<last_event, screen_dimensions, capture_area, duration, frame_rate,
                   capturer, elapsed, outfile, first_down, downs_differ,
                   last_up, sel_exit>>

----------------------------------------------------------------------------
(* convert_frame_to_rgb, convert_rgb_to_image *)

\* frame[(w * y + x) as usize] is out of bounds for some pixel.
ConvertPanics(frame, w, h) == w * h > Len(frame)

\* Faulty variant: the buffer is read column by column.
convert_frame_to_rgb_column_major(frame, w, h) ==
    [width |-> w, height |-> h,
     data |-> [i \in 1 .. w * h |->
                 LET x == (i - 1) % w
                     y == (i - 1) \div w
                     pixel == frame[(h * x + y) + 1]
                 IN  <<pixel.r, pixel.g, pixel.b>>]]

\* RgbImage::from_fn(w, h, f): pixel (x, y) is f(x, y); the image is stored
\* row by row, (x, y) at place y * w + x.
convert_frame_to_rgb(frame, w, h) ==
    [width |-> w, height |-> h,
     data |-> [i \in 1 .. w * h |->
                 LET x == (i - 1) % w
                     y == (i - 1) \div w
                     pixel == frame[(w * y + x) + 1]
                 IN  <<pixel.r, pixel.g, pixel.b>>]]

\* image.pixels() walks the image row by row.
convert_rgb_to_image(image) ==
    [pixels |-> [i \in 1 .. Len(image.data) |->
                   LET p == image.data[i] IN <<p[1], p[2], p[3], 255>>],
     width |-> image.width,
     height |-> image.height]

\* Faulty variant: frames are converted at the size of the selected Rect.
ConvertDimsOfCaptureArea == <<Unwrap(capture_area).w, Unwrap(capture_area).h>>

\* The width and height main passes to convert_frame_to_rgb.
ConvertDims == <<screen_dimensions[1], screen_dimensions[2]>>

\* The iterator chain of main converts the next frame.
ConvertFrame ==
    /\ pc = "convert" /\ exit = "running"
    /\ frames # << >>
    /\ LET f == Head(frames)
           w == ConvertDims[1]
           h == ConvertDims[2]
       IN  IF ConvertPanics(f, w, h)
           THEN ProcessEnds("panic", Panicked("index out of bounds"))
           ELSE /\ gif_images' = Append(gif_images,
                        convert_rgb_to_image(convert_frame_to_rgb(f, w, h)))
                /\ frames' = Tail(frames)
                /\ pc' = NextPhase(Tail(frames))
                /\ UNCHANGED <<exit, err_msg, selected_corners, canvas>>
    /\ UNCHANGED <<last_event, screen_dimensions, capture_area, duration, frame_rate,
                   capturer, elapsed, outfile, device_log, first_down,
                   downs_differ, last_up, sel_exit>>

----------------------------------------------------------------------------
(* create_gif *)

\* engiffen refuses an empty sequence and frames of different dimensions.
EngiffenRefuses(images) ==
    \/ images = << >>
    \/ \E i, j \in 1 .. Len(images) :
          \/ images[i].width # images[j].width
          \/ images[i].height # images[j].height

Encoding == pc = "encode" /\ exit = "running"

\* engiffen(...).unwrap() panics.
EngiffenFail ==
    /\ Encoding
    /\ ProcessEnds("panic", Panicked("engiffen"))
    /\ UNCHANGED <<last_event, screen_dimensions, capture_area, duration, frame_rate,
                   capturer, elapsed, outfile, device_log, first_down,
                   downs_differ, last_up, sel_exit>>

\* File::create(outfile).unwrap() panics.
FileCreateFail ==
    /\ Encoding
    /\ ~EngiffenRefuses(gif_images)
    /\ ProcessEnds("panic", Panicked("File::create"))
    /\ UNCHANGED <<last_event, screen_dimensions, capture_area, duration, frame_rate,
                   capturer, elapsed, outfile, device_log, first_down,
                   downs_differ, last_up, sel_exit>>

\* Faulty variant: the result of gif.write is dropped and Ok(()) returned.
GifWriteFailIgnored(left) ==
    /\ Encoding
    /\ ~EngiffenRefuses(gif_images)
    /\ outfile' = left
    /\ ProcessEnds("ok", << >>)
    /\ UNCHANGED <<last_event, screen_dimensions, capture_area, duration,
                   frame_rate, capturer, elapsed, device_log, first_down,
                   downs_differ, last_up, sel_exit>>

\* File::create made (or truncated) the file, gif.write(..).unwrap() panics
\* before or after some bytes reached it.
GifWriteFail(left) ==
    /\ Encoding
    /\ ~EngiffenRefuses(gif_images)
    /\ outfile' = left
    /\ ProcessEnds("panic", Panicked("gif.write"))
    /\ UNCHANGED <<last_event, screen_dimensions, capture_area, duration, frame_rate,
                   capturer, elapsed, device_log, first_down, downs_differ,
                   last_up, sel_exit>>

\* create_gif returns Ok(()), and so does main.
CreateGifOk ==
    /\ Encoding
    /\ ~EngiffenRefuses(gif_images)
    /\ outfile' = "complete"
    /\ ProcessEnds("ok", << >>)
    /\ UNCHANGED <<last_event, screen_dimensions, capture_area, duration, frame_rate,
                   capturer, elapsed, device_log, first_down, downs_differ,
                   last_up, sel_exit>>

\* The status the process ends with: 0 when main returns Ok(()), 1 when it
\* returns Err, 101 when it panics.
ExitStatus == IF exit = "ok" THEN 0 ELSE IF exit = "err" THEN 1 ELSE 101

----------------------------------------------------------------------------

Next ==
    \/ SetupOk
    \/ SetupFail
    \/ \E kind \in {"escape", "quit"} : Cancel(kind)
    \/ \E p \in Points : MouseButtonDown(p)
    \/ \E p \in Points : MouseMotion(p)
    \/ \E p \in Points : MouseMotionDrawError(p)
    \/ \E p \in Points : MouseButtonUp(p)
    \/ \E call \in Calls : StartCapture(call)
    \/ CapturerOpenFail
    \/ LoopExit
    \/ \E f \in DeviceFrames(screen_dimensions[1], screen_dimensions[2]),
          took \in CaptureMs : CaptureOk(f, took)
    \/ CaptureErr
    \/ ConvertFrame
    \/ EngiffenFail
    \/ FileCreateFail
    \/ \E left \in {"empty", "partial"} : GifWriteFail(left)
    \/ CreateGifOk

Spec == Init /\ [][Next]_vars

----------------------------------------------------------------------------
(* get_capture_rect alone: any two corners of the integer range *)

RectInit ==
    /\ pc = "rect_call"
    /\ exit = "running"
    /\ err_msg = << >>
    /\ screen_dimensions = <<1, 1>>
    /\ \E p1, p2 \in WidePoints : selected_corners = <<Some(p1), Some(p2)>>
    /\ canvas = CanvasCleared
    /\ capture_area = None
    /\ duration = 0
    /\ frame_rate = 0
    /\ capturer = FALSE
    /\ elapsed = 0
    /\ frames = << >>
    /\ gif_images = << >>
    /\ outfile = "absent"
    /\ device_log = << >>
    /\ first_down = None
    /\ downs_differ = FALSE
    /\ last_up = None
    /\ last_event = NoEvent
    /\ sel_exit = "none"

\* get_capture_rect(&corner1, &corner2) returns or panics; the corners stay
\* with the caller.
RectCall ==
    /\ pc = "rect_call"
    /\ pc' = "rect_ret"
    /\ LET corner1 == Unwrap(selected_corners[1])
           corner2 == Unwrap(selected_corners[2])
       IN  IF RectPanics(corner1, corner2)
           THEN /\ exit' = "panic"
                /\ err_msg' = Panicked("try_into")
                /\ UNCHANGED capture_area
           ELSE /\ capture_area' = Some(get_capture_rect(corner1, corner2))
                /\ UNCHANGED <<exit, err_msg>>
    /\ UNCHANGED <<last_event, screen_dimensions, selected_corners, canvas, duration,
                   frame_rate, capturer, elapsed, frames, gif_images, outfile,
                   device_log, first_down, downs_differ, last_up, sel_exit>>

RectNext == RectCall

RectSpec == RectInit /\ [][RectNext]_vars

----------------------------------------------------------------------------
(* The conversion alone: any buffer, of the screen's size or one off *)

ConvInit ==
    /\ pc = "conv_call"
    /\ exit = "running"
    /\ err_msg = << >>
    /\ screen_dimensions \in (1 .. MaxDim) \X (1 .. MaxDim)
    /\ selected_corners = <<None, None>>
    /\ canvas = CanvasCleared
    /\ capture_area = None
    /\ duration = 0
    /\ frame_rate = 0
    /\ capturer = FALSE
    /\ elapsed = 0
    /\ \E n \in {screen_dimensions[1] * screen_dimensions[2] + d : d \in {-1, 0, 1}} :
          \E frame \in [1 .. n -> Pixels] : frames = <<frame>>
    /\ gif_images = << >>
    /\ outfile = "absent"
    /\ device_log = << >>
    /\ first_down = None
    /\ downs_differ = FALSE
    /\ last_up = None
    /\ last_event = NoEvent
    /\ sel_exit = "none"

\* convert_rgb_to_image(convert_frame_to_rgb(f, w, h)) for the one frame;
\* frames keeps the argument for comparison.
ConvCall ==
    /\ pc = "conv_call"
    /\ pc' = "conv_ret"
    /\ LET f == frames[1]
           w == screen_dimensions[1]
           h == screen_dimensions[2]
       IN  IF ConvertPanics(f, w, h)
           THEN /\ exit' = "panic"
                /\ err_msg' = Panicked("index out of bounds")
                /\ UNCHANGED gif_images
           ELSE /\ gif_images' = <<convert_rgb_to_image(convert_frame_to_rgb(f, w, h))>>
                /\ UNCHANGED <<exit, err_msg>>
    /\ UNCHANGED <<last_event,
                   screen_dimensions, selected_corners, canvas, capture_area,
                   duration, frame_rate, capturer, elapsed, frames, outfile,
                   device_log, first_down, downs_differ, last_up, sel_exit>>

ConvNext == ConvCall

ConvSpec == ConvInit /\ [][ConvNext]_vars

----------------------------------------------------------------------------
(* The claims *)

Abs(v) == IF v < 0 THEN 0 - v ELSE v

\* The normalization of two corners as the specification words it.
NormalizedRect(p1, p2) ==
    [x |-> IF p1.x < p2.x THEN p1.x ELSE p2.x,
     y |-> IF p1.y < p2.y THEN p1.y ELSE p2.y,
     w |-> Abs(p1.x - p2.x),
     h |-> Abs(p1.y - p2.y)]

\* C1: for every two corners p1, p2 get_capture_rect returns the rectangle
\* with x = min of the x's, y = min of the y's, width = |p1.x - p2.x| and
\* height = |p1.y - p2.y|, and the same rectangle with the corners swapped.
\* Stated over the whole integer range (RectSpec).
C1_RectNormalizesEveryPair ==
    pc = "rect_ret" =>
        LET p1 == Unwrap(selected_corners[1])
            p2 == Unwrap(selected_corners[2])
        IN  /\ exit = "running"
            /\ capture_area = Some(NormalizedRect(p1, p2))
            /\ get_capture_rect(p2, p1) = get_capture_rect(p1, p2)

\* C2: a Rect returned by the selector is the normalization of the point of
\* the pointer-down that left Idle and the point of the pointer-up that ended
\* Dragging, whatever arrived in between.
C2_RectFromFirstDownAndUp ==
    (pc = "selected" /\ IsSome(last_up)) =>
        capture_area = Some(NormalizedRect(Unwrap(first_down), Unwrap(last_up)))

\* C3: an escape key-press or a quit signal, in Idle or in Dragging, ends the
\* selection with the failure and the process with it: no Rect, the capture
\* device is never opened, no frame is captured, no output file is made.
C3_CancelAbortsRun ==
    sel_exit \in {"escape", "quit"} =>
        /\ pc = "done"
        /\ exit = "err"
        /\ err_msg = SelectionFailed
        /\ capture_area = None
        /\ ~capturer
        /\ device_log = << >>
        /\ frames = << >>
        /\ outfile = "absent"

\* C3 witness: the selection was cancelled while Dragging.
C3_CancelledWhileDragging ==
    sel_exit = "escape" /\ IsSome(first_down) /\ exit = "err"

OkFrames(log) == [i \in 1 .. Len(log) |-> log[i][2]]

\* C5: a capture call that fails after k successful ones ends capture_frames
\* with the failure naming index k; none of the k frames is kept and no
\* capture call follows.
C5_FailureNamesIndexAndDropsFrames ==
    \A i \in 1 .. Len(device_log) :
        device_log[i] = <<"Err">> =>
            /\ i = Len(device_log)
            /\ \A j \in 1 .. i - 1 : device_log[j][1] = "Ok"
            /\ pc = "done"
            /\ exit = "err"
            /\ err_msg = <<"Failed to capture frame", i - 1>>
            /\ frames = << >>
            /\ gif_images = << >>
            /\ outfile = "absent"

\* C5 witness: the device failed on its third call.
C5_ThirdCallFailed ==
    /\ Len(device_log) = 3
    /\ device_log[3] = <<"Err">>
    /\ err_msg = <<"Failed to capture frame", 2>>

\* C6: no capture call is started at an elapsed time strictly greater than
\* D seconds.
C6_NoCaptureAfterDSeconds ==
    [][Len(device_log') > Len(device_log) => elapsed <= duration * 1000]_vars

\* C7: with a device that does not fail, capture_frames makes a capture
\* before its exit condition can hold, for every D >= 0: what it returns
\* has at least one frame.
C7_AtLeastOneFrame ==
    /\ (pc = "capture" /\ TimeIsUp) => Len(device_log) >= 1
    /\ (pc \in {"convert", "encode"}) => Len(frames) + Len(gif_images) >= 1

\* C7 witness: capture_frames(0, R) has returned its frames.
C7_ZeroDurationReturned ==
    /\ pc = "convert"
    /\ duration = 0
    /\ gif_images = << >>
    /\ Len(frames) >= 1

\* C8: the sequence capture_frames returns holds the frames of the
\* successful capture calls, the i-th element the frame of the i-th call.
C8_FramesInCallOrder ==
    (pc \in {"capture", "convert"} /\ gif_images = << >>) =>
        /\ \A i \in 1 .. Len(device_log) : device_log[i][1] = "Ok"
        /\ frames = OkFrames(device_log)

\* C8 witness: a returned sequence whose first two frames differ.
C8_ReturnedDifferentFrames ==
    /\ pc = "convert"
    /\ gif_images = << >>
    /\ Len(frames) >= 3
    /\ frames[1] # frames[2]
    /\ frames[2] = frames[3]

\* C9: converting a raw frame of W*H elements gives an image of width W and
\* height H whose pixel (x, y) has the colour channels of buffer element
\* y*W + x and alpha 255.
C9_PixelsRowMajorOpaque ==
    LET W == screen_dimensions[1]
        H == screen_dimensions[2]
    IN  (pc = "conv_ret" /\ Len(frames[1]) = W * H) =>
            /\ exit = "running"
            /\ Len(gif_images) = 1
            /\ gif_images[1].width = W
            /\ gif_images[1].height = H
            /\ Len(gif_images[1].pixels) = W * H
            /\ \A x \in 0 .. W - 1, y \in 0 .. H - 1 :
                  LET c == frames[1][y * W + x + 1]
                  IN  gif_images[1].pixels[y * W + x + 1] = <<c.r, c.g, c.b, 255>>

\* C9 witness: a converted 2x2 frame whose elements 1 and 2 differ.
C9_Converted2x2 ==
    /\ pc = "conv_ret"
    /\ screen_dimensions = <<2, 2>>
    /\ Len(frames[1]) = 4
    /\ Len(gif_images) = 1
    /\ frames[1][2] # frames[1][3]

\* C10: a run that ends in a failure leaves no output file that it created
\* or partly wrote.
C10_NoOutputFileAfterFailure ==
    exit \in {"err", "panic"} => outfile = "absent"

\* C11: an empty or mismatched frame sequence, a palette failure and a
\* serialization or write failure each make create_gif return a failure
\* value: a create_gif that does not complete the file ends main with Err,
\* not with an abort.
C11_CreateGifReturnsItsFailures ==
    [][(pc = "encode" /\ pc' = "done" /\ outfile' # "complete") => exit' = "err"]_vars

\* A phase of the run failed: selection, capture, encoding or output.
RunFailed ==
    \/ sel_exit \in {"escape", "quit", "setup_error", "draw_error", "panic"}
    \/ \E i \in 1 .. Len(device_log) : device_log[i] = <<"Err">>
    \/ err_msg \in {Panicked("Capturer::new"), Panicked("index out of bounds"),
                    Panicked("engiffen"), Panicked("File::create"),
                    Panicked("gif.write")}
    \/ outfile \in {"empty", "partial"}

\* C12: the process ends with status 0 only after the output file has been
\* written completely, and with a non-zero status in every run in which
\* selection, capture, encoding or output fails.
C12_ExitStatusTellsOutcome ==
    /\ (pc = "done" /\ ExitStatus = 0) => (outfile = "complete" /\ ~RunFailed)
    /\ RunFailed => (pc = "done" /\ ExitStatus # 0)
    /\ outfile # "absent" => pc = "done"

\* C12 witness: a run that ended with status 0.
C12_EndedWithStatusZero ==
    pc = "done" /\ ExitStatus = 0 /\ outfile = "complete" /\ Len(device_log) >= 2

\* C14: the phases follow one another: no capture call before the selector
\* has returned a Rect, no frame converted before capture_frames has
\* returned the whole sequence, encoding only after every frame is converted.
C14_PhasesInSequence ==
    /\ (capturer \/ device_log # << >>) => (IsSome(capture_area) /\ pc # "select")
    /\ gif_images # << >> =>
          /\ pc \in {"convert", "encode"}
          /\ Len(frames) + Len(gif_images) = Len(device_log)
          /\ \A i \in 1 .. Len(device_log) : device_log[i][1] = "Ok"
    /\ pc = "encode" => (frames = << >> /\ Len(gif_images) = Len(device_log))
    /\ outfile # "absent" => (pc = "done" /\ Len(device_log) >= 1)

\* C14 witness: create_gif is about to run on three converted frames.
C14_ReadyToEncode ==
    pc = "encode" /\ Len(gif_images) = 3 /\ IsSome(capture_area)

C17_RectNeverOverflows ==
    pc = "rect_ret" =>
        /\ exit # "panic"
        /\ IsSome(capture_area)
        /\ Unwrap(capture_area).w >= 0
        /\ Unwrap(capture_area).h >= 0

\* C18: while the selector is Idle a pointer-move or a pointer-up changes
\* nothing: no corner is recorded, nothing is drawn, the selection goes on.
C18_IdleIgnoresMoveAndUp ==
    [][(Selecting /\ ~Dragging /\ last_event'.kind \in {"motion", "up"}) =>
          /\ pc' = "select"
          /\ exit' = "running"
          /\ selected_corners' = selected_corners
          /\ canvas' = canvas
          /\ capture_area' = capture_area
          /\ first_down' = first_down
          /\ last_up' = last_up
          /\ sel_exit' = sel_exit]_vars

\* C18 witness: a pointer-up was handled in Idle and the selection goes on.
C18_UpHandledInIdle ==
    Selecting /\ ~Dragging /\ last_event.kind = "up" /\ canvas = CanvasCleared

\* C19: the images handed to create_gif are determined by the screen
\* dimensions and the device's frames alone, every one of the screen's width
\* and height; the selected Rect has no part in them.
C19_ImagesIndependentOfRect ==
    pc = "encode" =>
        /\ Len(gif_images) = Len(device_log)
        /\ \A i \in 1 .. Len(gif_images) :
              /\ gif_images[i].width = screen_dimensions[1]
              /\ gif_images[i].height = screen_dimensions[2]
              /\ gif_images[i] = convert_rgb_to_image(convert_frame_to_rgb(
                     device_log[i][2], screen_dimensions[1], screen_dimensions[2]))

\* C19 witness: images of a 2x1 screen are handed over after an empty Rect
\* was selected.
C19_EncodingAfterEmptyRect ==
    /\ pc = "encode"
    /\ screen_dimensions = <<2, 1>>
    /\ capture_area = Some([x |-> 1, y |-> 1, w |-> 0, h |-> 0])
    /\ Len(gif_images) >= 2

====
